---- MODULE Spec2Model ----
(***************************************************************************)
(* pyrism: the TMatrix facade (scattering/tmat/tmatrix.py).                *)
(*                                                                         *)
(* The model follows one TMatrix instance: the mode tag and delegate       *)
(* chosen by the constructor, the delegate's outputs (S, nmax, cross       *)
(* sections), the pre-computed extinction factor, the five lazily built    *)
(* caches (ke, ks, ka, omega, kt) and the delegate's lookup tables.        *)
(*                                                                         *)
(* A second specification (SpecMie) follows the construction of one Mie    *)
(* object (scattering/mie/mie.py).                                         *)
(*                                                                         *)
(* Numbers.  The code computes in floating point with the literal          *)
(* PI = 3.14159265359.  The model computes exactly: a real is              *)
(* (n + p*PI)/d with integers n, p, d, so PI stays the program's constant  *)
(* as a symbol and no rounding takes place.  d = 0 marks a value that is   *)
(* not finite (numpy's nan and inf).                                       *)
(***************************************************************************)
EXTENDS Integers, Sequences, FiniteSets, TLC

\* ------------------------------------------------------------------------
\* Bounds of the model
\* ------------------------------------------------------------------------
MaxN == 2        \* largest number of geometry samples of an instance
MaxRuns == 2     \* each derivation is started at most this many times

\* ------------------------------------------------------------------------
\* Exact arithmetic on (n + p*PI)/d
\* ------------------------------------------------------------------------
Abs(x) == IF x < 0 THEN -x ELSE x

Sgn(x) == IF x < 0 THEN -1 ELSE IF x > 0 THEN 1 ELSE 0

RECURSIVE GCD(_, _)
GCD(a, b) == IF b = 0 THEN a ELSE GCD(b, a % b)

\* (n + p*PI)/d in lowest terms with a positive denominator (d # 0).
Real(n, p, d) ==
    LET g == GCD(GCD(Abs(n), Abs(p)), Abs(d))
        s == IF d < 0 THEN -1 ELSE 1
    IN  [n |-> (s * n) \div g, p |-> (s * p) \div g, d |-> (s * d) \div g]

Rat(n, d) == Real(n, 0, d)

Zero == Rat(0, 1)

One == Rat(1, 1)

\* numpy's non-finite results of a float division by zero.
NaN == [n |-> 0, p |-> 0, d |-> 0]

Inf(s) == [n |-> s, p |-> 0, d |-> 0]

\* A value outside (n + p*PI)/d (a PI*PI term, or an undecided sign).
Unrep == [n |-> 0, p |-> 1, d |-> 0]

IsFinite(x) == x.d # 0

IsZero(x) == x.d # 0 /\ x.n = 0 /\ x.p = 0

\* Sign of n + p*PI, decided with 3 < PI < 4 and 3.14159 < PI < 3.14160.
RSign(x) ==
    IF x.p = 0 THEN Sgn(x.n)
    ELSE IF x.n = 0 \/ Sgn(x.n) = Sgn(x.p) THEN Sgn(x.p)
    ELSE IF 100000 * Abs(x.n) <= 314159 * Abs(x.p) THEN Sgn(x.p)
    ELSE IF 100000 * Abs(x.n) >= 314160 * Abs(x.p) THEN Sgn(x.n)
    ELSE 0

RNeg(x) == IF IsFinite(x) THEN Real(-x.n, -x.p, x.d) ELSE
           IF x = NaN \/ x = Unrep THEN x ELSE Inf(-x.n)

RAdd(x, y) ==
    IF IsFinite(x) /\ IsFinite(y)
    THEN Real(x.n * y.d + y.n * x.d, x.p * y.d + y.p * x.d, x.d * y.d)
    ELSE IF x = Unrep \/ y = Unrep THEN Unrep
    ELSE IF IsFinite(y) THEN x
    ELSE IF IsFinite(x) THEN y
    ELSE IF x = y THEN x ELSE NaN

RSub(x, y) == RAdd(x, RNeg(y))

RMul(x, y) ==
    IF IsFinite(x) /\ IsFinite(y)
    THEN IF x.p # 0 /\ y.p # 0 THEN Unrep
         ELSE Real(x.n * y.n, x.n * y.p + x.p * y.n, x.d * y.d)
    ELSE IF x = Unrep \/ y = Unrep THEN Unrep
    ELSE IF x = NaN \/ y = NaN \/ IsZero(x) \/ IsZero(y) THEN NaN
    ELSE Inf((IF IsFinite(x) THEN RSign(x) ELSE x.n) *
             (IF IsFinite(y) THEN RSign(y) ELSE y.n))

\* Float division as numpy does it: x/0 is nan for x = 0 and inf otherwise
\* (a RuntimeWarning, no exception).
RDiv(x, y) ==
    IF x = Unrep \/ y = Unrep THEN Unrep
    ELSE IF ~IsFinite(x) \/ ~IsFinite(y)
    THEN IF IsFinite(y) /\ x # NaN
         THEN Inf(x.n * (IF RSign(y) < 0 THEN -1 ELSE 1))
         ELSE IF IsFinite(x) /\ y # NaN THEN Zero ELSE NaN
    ELSE IF IsZero(y)
    THEN IF IsZero(x) THEN NaN
         ELSE IF RSign(x) = 0 THEN Unrep ELSE Inf(RSign(x))
    ELSE IF y.p = 0 THEN Real(x.n * y.d, x.p * y.d, x.d * y.n)
    ELSE IF x.n * y.p # x.p * y.n THEN Unrep
    ELSE IF y.n # 0 THEN Rat(x.n * y.d, x.d * y.n)
    ELSE Rat(x.p * y.d, x.d * y.p)

\* ------------------------------------------------------------------------
\* Complex numbers (Python complex / numpy complex128)
\* ------------------------------------------------------------------------
Complex(re, im) == [re |-> re, im |-> im]

CMul(a, b) == Complex(RSub(RMul(a.re, b.re), RMul(a.im, b.im)),
                      RAdd(RMul(a.re, b.im), RMul(a.im, b.re)))

\* complex / real
CDivR(a, r) == Complex(RDiv(a.re, r), RDiv(a.im, r))

\* ------------------------------------------------------------------------
\* Program constants and Python values
\* ------------------------------------------------------------------------
\* PI = 3.14159265359 (the module's literal, kept as a symbol)
PI == Real(0, 1, 1)

Idx2 == (0 .. 1) \X (0 .. 1)

Idx4 == (0 .. 3) \X (0 .. 3)

\* np.zeros((4, 4))
zeros44 == [rc \in Idx4 |-> Zero]

Derived == {"ke", "ks", "ka", "omega", "kt"}

\* A Python value: a list, one numpy array, a tuple, a bound method or None.
PyList(items) == [kind |-> "list", val |-> items]

PyArray(m) == [kind |-> "ndarray", val |-> <<m>>]

PyTuple(a, b) == [kind |-> "tuple", val |-> <<a, b>>]

PyMethod(name) == [kind |-> "method", val |-> <<name>>]

PyNone == [kind |-> "None", val |-> <<>>]

Range(s) == {s[i] : i \in DOMAIN s}

\* ------------------------------------------------------------------------
\* The delegate's outputs for one geometry sample (inputs of the model)
\* ------------------------------------------------------------------------
Cx(rn, rd, in, id) == Complex(Rat(rn, rd), Rat(in, id))

\* S = [[1+2j, 0.5-0.3j], [0.1j, 2-1j]]
ExampleS == [rc \in Idx2 |->
    CASE rc = <<0, 0>> -> Cx(1, 1, 2, 1)
      [] rc = <<0, 1>> -> Cx(1, 2, -3, 10)
      [] rc = <<1, 0>> -> Cx(0, 1, 1, 10)
      [] rc = <<1, 1>> -> Cx(2, 1, -1, 1)]

DiagS == [rc \in Idx2 |->
    CASE rc = <<0, 0>> -> Cx(2, 1, -1, 1)
      [] rc = <<0, 1>> -> Cx(0, 1, 0, 1)
      [] rc = <<1, 0>> -> Cx(0, 1, 0, 1)
      [] rc = <<1, 1>> -> Cx(1, 1, 1, 1)]

SwapS == [rc \in Idx2 |->
    CASE rc = <<0, 0>> -> Cx(0, 1, 3, 1)
      [] rc = <<0, 1>> -> Cx(-1, 1, 1, 2)
      [] rc = <<1, 0>> -> Cx(2, 1, -2, 1)
      [] rc = <<1, 1>> -> Cx(-1, 2, 0, 1)]

\* One sample: S, nmax, the wavenumber k0 and the cross sections.
\* Extinction cross sections are positive; a scattering cross section may
\* be zero (a channel that does not scatter).
SampleVals ==
    { [S |-> ExampleS, nmax |-> 2, k0 |-> Rat(1, 1),
       ksxVV |-> Rat(1, 1), ksxHH |-> Rat(1, 1),
       kexVV |-> Rat(2, 1), kexHH |-> Rat(4, 1),
       asxVV |-> Rat(1, 2), asxHH |-> Rat(1, 3)],
      [S |-> DiagS, nmax |-> 4, k0 |-> Rat(2, 1),
       ksxVV |-> Rat(0, 1), ksxHH |-> Rat(3, 1),
       kexVV |-> Rat(3, 1), kexHH |-> Rat(3, 1),
       asxVV |-> Rat(0, 1), asxHH |-> Rat(1, 4)],
      [S |-> SwapS, nmax |-> 3, k0 |-> Rat(1, 2),
       ksxVV |-> Rat(2, 1), ksxHH |-> Rat(1, 2),
       kexVV |-> Rat(5, 1), kexHH |-> Rat(1, 1),
       asxVV |-> Rat(-1, 5), asxHH |-> Rat(2, 3)] }

\* ------------------------------------------------------------------------
\* State of one TMatrix instance
\* ------------------------------------------------------------------------
VARIABLES
    psd,        \* the constructor's psd argument: "None" or "psd"
    NAME,       \* self.__NAME, the mode tag
    TM,         \* self.TM, the delegate (named by its class)
    samples,    \* the delegate's outputs, one record per geometry sample
    factor,     \* self.factor, one complex number per sample
    tables,     \* the delegate's lookup tables are built (PSD mode)
    cache,      \* self.__ke, __ks, __ka, __omega, __kt: set or not, and the list
    started,    \* how often each derivation __get_q was entered
    completed,  \* how often each derivation __get_q returned
    reenter,    \* some derivation was entered while it was already running
    last,       \* the last operation of the caller and its outcome
    mie         \* the Mie object (scattering/mie/mie.py), if one is made

vars == <<psd, NAME, TM, samples, factor, tables, cache, started, completed,
          reenter, last, mie>>

\* No Mie object
NoMie == [state |-> "none"]

\* ------------------------------------------------------------------------
\* Constructor (TMatrix.__init__)
\* ------------------------------------------------------------------------
\* The test on psd inverted
SelectTM_inverted(p) ==
    IF p # "None" THEN [TM |-> "TMatrixSingle", NAME |-> "SINGLE"]
    ELSE [TM |-> "TMatrixPSD", NAME |-> "PSD"]

\* if psd is None: TMatrixSingle, 'SINGLE'  else: TMatrixPSD, 'PSD'
SelectTM(p) ==
    IF p = "None" THEN [TM |-> "TMatrixSingle", NAME |-> "SINGLE"]
    ELSE [TM |-> "TMatrixPSD", NAME |-> "PSD"]

RECURSIVE SumNmax(_)
SumNmax(smp) == IF smp = <<>> THEN 0
                ELSE smp[1].nmax + SumNmax(Tail(smp))

\* self.nmax.mean()
MeanNmax(smp) == Rat(SumNmax(smp), Len(smp))

\* self.factor = complex(0, 2 * PI * self.nmax.mean()) / self.k0
Factor(smp) ==
    [i \in 1 .. Len(smp) |->
        CDivR(Complex(Zero, RMul(RMul(Rat(2, 1), PI), MeanNmax(smp))),
              smp[i].k0)]

Unset == [set |-> FALSE, items |-> <<>>]

Init ==
    \E p \in {"None", "psd"}, k \in 1 .. MaxN :
    \E smp \in [1 .. k -> SampleVals],
       built \in (IF p = "None" THEN {FALSE} ELSE BOOLEAN) :
        /\ psd = p
        /\ NAME = SelectTM(p).NAME
        /\ TM = SelectTM(p).TM
        /\ samples = smp
        /\ factor = Factor(smp)
        /\ tables = built
        /\ cache = [q \in Derived |-> Unset]
        /\ started = [q \in Derived |-> 0]
        /\ completed = [q \in Derived |-> 0]
        /\ reenter = FALSE
        /\ last = [op |-> "init", exc |-> "none", ret |-> PyNone,
                   hit |-> FALSE, built |-> tables, edges |-> {},
                   calls |-> <<>>]
        /\ mie = NoMie

\* ------------------------------------------------------------------------
\* The delegate self.TM (TMatrixSingle / TMatrixPSD)
\* ------------------------------------------------------------------------
\* The outcome of a call: the instance afterwards, the exception raised
\* ("none" when the call returned) and the value returned.
Ok(self, v) == [self |-> self, exc |-> "none", ret |-> v]

Raise(self, e) == [self |-> self, exc |-> e, ret |-> PyNone]

\* The instance as the calls of one operation see and change it.
Self == [cache |-> cache, tables |-> tables, started |-> started,
         completed |-> completed, active |-> <<>>, reenter |-> reenter,
         edges |-> {}, calls |-> <<>>]

\* One more use of the delegate by the running operation (an attribute
\* read, a method called, or the exception that came out of it), in order.
Called(self, what) == [self EXCEPT !.calls = Append(@, what)]

\* A use of the delegate that raises e
Fails(self, what, e) == Raise(Called(Called(self, what), e), e)

\* self.TM.S: one matrix for a single sample, else the list of matrices.
\* In PSD mode S is read from the lookup table and fails with the
\* not-yet-initialised condition until the table is built.
TM_S(self) ==
    IF NAME = "PSD" /\ ~self.tables THEN Fails(self, "S", "AttributeError")
    ELSE IF Len(samples) = 1
         THEN Ok(Called(self, "S"), PyArray(samples[1].S))
    ELSE Ok(Called(self, "S"),
            PyList([i \in 1 .. Len(samples) |-> samples[i].S]))

\* The (VV, HH) pair of a cross section over the samples.
CrossSection(name) ==
    PyTuple([i \in 1 .. Len(samples) |-> samples[i][name \o "VV"]],
            [i \in 1 .. Len(samples) |-> samples[i][name \o "HH"]])

\* The attribute self.TM.<name> for name in ksx, kex, asx: a property
\* holding the (VV, HH) pair on TMatrixSingle, a method taking a geometry
\* on TMatrixPSD (reading the attribute yields the bound method).
TM_attr(name, self) ==
    IF NAME = "SINGLE" THEN Ok(Called(self, name), CrossSection(name))
    ELSE Ok(Called(self, name), PyMethod(name))

\* self.TM.init_SZ(verbose): build the lookup tables.
TM_init_SZ(self) ==
    Ok(Called([self EXCEPT !.tables = TRUE], "init_SZ"), PyNone)

\* The attribute self.TM.<name> for name in ksi, dblquad, which only
\* TMatrixSingle has: the delegate's value, passed on as it is.
TM_single(name, self) ==
    Ok(Called(self, name), [kind |-> "delegate", val |-> <<name>>])

\* The exceptions a cross-section query of TMatrixPSD can end with once the
\* tables are built ("none": it returns).
QueryErrors == {"none", "AttributeError", "ValueError"}

\* self.TM.<name>(geometry) on TMatrixPSD: the not-yet-initialised condition
\* until the tables are built, then the delegate's outcome e for the query.
TM_query(name, self, e) ==
    IF ~self.tables THEN Fails(self, name, "AttributeError")
    ELSE IF e # "none" THEN Fails(self, name, e)
    ELSE Ok(Called(self, name), PyNone)

\* ------------------------------------------------------------------------
\* The facade's helpers
\* ------------------------------------------------------------------------
\* if len(x) == 1: return x[0]  else: return x
View(items) == IF Len(items) = 1 THEN PyArray(items[1]) ELSE PyList(items)

\* The derivation that is running (the caller of a nested read), if any.
Caller(self) == self.active[Len(self.active)]

Calls(self, callee) ==
    IF self.active = <<>> THEN self
    ELSE [self EXCEPT !.edges = @ \cup {<<Caller(self), callee>>}]

\* Mpq without the factor
Mpq_nofactor(f, S) == S

\* TMatrix.Mpq
Mpq(f, S) == CMul(f, S)

\* The sixteen assignments to kem in __get_ke, for one factor and one S.
Kem(f, S) == [rc \in Idx4 |->
    CASE rc = <<0, 0>> -> RMul(Rat(-2, 1), Mpq(f, S[<<0, 0>>]).re)
      [] rc = <<0, 1>> -> Zero
      [] rc = <<0, 2>> -> RNeg(Mpq(f, S[<<0, 1>>]).re)
      [] rc = <<0, 3>> -> RNeg(Mpq(f, S[<<0, 0>>]).im)
      [] rc = <<1, 0>> -> Zero
      [] rc = <<1, 1>> -> RMul(Rat(-2, 1), Mpq(f, S[<<1, 1>>]).re)
      [] rc = <<1, 2>> -> RNeg(Mpq(f, S[<<1, 0>>]).re)
      [] rc = <<1, 3>> -> RNeg(Mpq(f, S[<<1, 0>>]).im)
      [] rc = <<2, 0>> -> RMul(Rat(-2, 1), Mpq(f, S[<<1, 0>>]).re)
      [] rc = <<2, 1>> -> RMul(Rat(-2, 1), Mpq(f, S[<<0, 1>>]).re)
      [] rc = <<2, 2>> -> RNeg(RAdd(Mpq(f, S[<<0, 0>>]).re,
                                    Mpq(f, S[<<1, 1>>]).re))
      [] rc = <<2, 3>> -> RSub(Mpq(f, S[<<0, 0>>]).im,
                               Mpq(f, S[<<1, 1>>]).im)
      [] rc = <<3, 0>> -> RMul(Rat(2, 1), Mpq(f, S[<<1, 0>>]).im)
      [] rc = <<3, 1>> -> RMul(Rat(-2, 1), Mpq(f, S[<<0, 1>>]).im)
      [] rc = <<3, 2>> -> RNeg(RSub(Mpq(f, S[<<0, 0>>]).im,
                                    Mpq(f, S[<<1, 1>>]).im))
      [] rc = <<3, 3>> -> RNeg(RAdd(Mpq(f, S[<<0, 0>>]).re,
                                    Mpq(f, S[<<1, 1>>]).re))]

\* -item instead of 1 - item
OneMinus_neg(m) == [rc \in Idx4 |-> RNeg(m[rc])]

\* 1 - item, elementwise
OneMinus(m) == [rc \in Idx4 |-> RSub(One, m[rc])]

\* The properties kex, ksx, asx: return self.TM.kex (ksx, asx)
Facade_xs(name, self) == TM_attr(name, Calls(self, name))

\* The delegate's attribute returned whatever the mode
Facade_single_any(name, self) == TM_single(name, self)

\* The properties ksi, dblquad:
\*   if self.__NAME is 'SINGLE': return self.TM.ksi  else: return None
Facade_single(name, self) ==
    IF NAME = "SINGLE" THEN TM_single(name, self) ELSE Ok(self, PyNone)

\* ------------------------------------------------------------------------
\* Derivations (__get_ke, __get_kt, __get_omega, __get_ks, __get_ka)
\* ------------------------------------------------------------------------
\* The first statement of a derivation, before it reads anything:
\* self.__ke = list() in __get_ke and self.__kt = list() in __get_kt.
Pre(q, self) ==
    IF q \in {"ke", "kt"}
    THEN [self EXCEPT !.cache[q] = [set |-> TRUE, items |-> <<>>]]
    ELSE self

\* omega derived from ks and ke (omega = ks / ke) instead of ksx and kex
Reads_cyclic(q) ==
    CASE q = "kt" -> <<"ke">>
      [] q = "ks" -> <<"ke", "omega">>
      [] q = "ka" -> <<"ks", "omega">>
      [] q = "omega" -> <<"ks", "ke">>
      [] OTHER -> <<>>

\* The derived properties a derivation reads, in the order of the code:
\* __get_kt: self.ke;  __get_ks: self.ke, self.omega;
\* __get_ka: self.ks, self.omega;  __get_ke and __get_omega: none.
Reads(q) ==
    CASE q = "kt" -> <<"ke">>
      [] q = "ks" -> <<"ke", "omega">>
      [] q = "ka" -> <<"ks", "omega">>
      [] OTHER -> <<>>

\* A derivation that filled its list in place (self.__ke, self.__kt) and
\* returns it.
Filled(q, self, items) ==
    Ok([self EXCEPT !.cache[q].items = items], PyList(items))

\* The kem of every sample: S a list (factor[i] with S[i]) or one matrix
\* (factor with S).
KemItems(S) ==
    IF S.kind = "list"
    THEN [i \in 1 .. Len(S.val) |-> Kem(factor[i], S.val[i])]
    ELSE <<Kem(factor[1], S.val[1])>>

get_ke_from(self, rS) ==
    IF rS.exc # "none" THEN rS ELSE Filled("ke", self, KemItems(rS.ret))

\* __get_ke after self.__ke = list(): reads self.TM.S, appends one kem per
\* sample and returns the list.
get_ke(self) == get_ke_from(self, TM_S(self))

\* __get_kt after self.__kt = list() and ke = self.ke:
\* 1 - item for each item of ke (a list), or 1 - ke.
get_kt(self, ke) ==
    Filled("kt", self,
           IF ke.kind = "list"
           THEN [i \in 1 .. Len(ke.val) |-> OneMinus(ke.val[i])]
           ELSE <<OneMinus(ke.val[1])>>)

\* The quotients inverted: kex / ksx
OmegaMatrix_inverted(ksVV, ksHH, keVV, keHH) ==
    [zeros44 EXCEPT ![<<0, 0>>] = RDiv(keVV, ksVV),
                    ![<<1, 1>>] = RDiv(keHH, ksHH)]

\* omega[0, 0] = ksVV / keVV; omega[1, 1] = ksHH / keHH, on np.zeros((4, 4))
OmegaMatrix(ksVV, ksHH, keVV, keHH) ==
    [zeros44 EXCEPT ![<<0, 0>>] = RDiv(ksVV, keVV),
                    ![<<1, 1>>] = RDiv(ksHH, keHH)]

\* The loop over range(len(ksVV)) when len(ksVV) > 1, else the one matrix
\* from ksVV / keVV and ksHH / keHH.
OmegaItems(ks, ke) ==
    IF Len(ks[1]) > 1
    THEN [i \in 1 .. Len(ks[1]) |->
             OmegaMatrix(ks[1][i], ks[2][i], ke[1][i], ke[2][i])]
    ELSE <<OmegaMatrix(ks[1][1], ks[2][1], ke[1][1], ke[2][1])>>

\* keVV, keHH = self.kex, then the matrices
get_omega_kex(ks, rke) ==
    IF rke.ret.kind # "tuple" THEN Raise(rke.self, "TypeError")
    ELSE Ok(rke.self, PyList(OmegaItems(ks, rke.ret.val)))

\* ksVV, ksHH = self.ksx: unpacking anything but the pair is a TypeError
get_omega_ksx(rks) ==
    IF rks.ret.kind # "tuple" THEN Raise(rks.self, "TypeError")
    ELSE get_omega_kex(rks.ret.val, Facade_xs("kex", rks.self))

\* __get_omega
get_omega(self) == get_omega_ksx(Facade_xs("ksx", self))

\* The VV albedo used for both channels
KsMatrix_vv(o, k) ==
    [zeros44 EXCEPT ![<<0, 0>>] = RMul(o[<<0, 0>>], k[<<0, 0>>]),
                    ![<<1, 1>>] = RMul(o[<<0, 0>>], k[<<1, 1>>])]

\* ksm[0, 0] = omega[0, 0] * ke[0, 0]; ksm[1, 1] = omega[1, 1] * ke[1, 1]
KsMatrix(o, k) ==
    [zeros44 EXCEPT ![<<0, 0>>] = RMul(o[<<0, 0>>], k[<<0, 0>>]),
                    ![<<1, 1>>] = RMul(o[<<1, 1>>], k[<<1, 1>>])]

\* __get_ks after ke = self.ke and omega = self.omega: one ksm per item of
\* omega (a list, indexing ke[i]) or one ksm from omega and ke.
\* (The loop reads self.omega[i] again: the cached list, no new state.)
get_ks(self, ke, omega) ==
    IF omega.kind = "list"
    THEN IF ke.kind # "list" \/ Len(ke.val) < Len(omega.val)
         THEN Raise(self, "IndexError")
         ELSE Ok(self, PyList([i \in 1 .. Len(omega.val) |->
                                  KsMatrix(omega.val[i], ke.val[i])]))
    ELSE IF ke.kind # "ndarray"
         THEN Raise(self, "TypeError")
         ELSE Ok(self, PyList(<<KsMatrix(omega.val[1], ke.val[1])>>))

\* The division by omega left out
KaEntry_nodiv(o, k) == RSub(k, RMul(o, k))

\* (ks[p, p] - omega[p, p] * ks[p, p]) / omega[p, p]
KaEntry(o, k) == RDiv(RSub(k, RMul(o, k)), o)

KaMatrix(o, k) ==
    [zeros44 EXCEPT ![<<0, 0>>] = KaEntry(o[<<0, 0>>], k[<<0, 0>>]),
                    ![<<1, 1>>] = KaEntry(o[<<1, 1>>], k[<<1, 1>>])]

\* __get_ka after ks = self.ks and omega = self.omega: one kam per item of
\* omega (a list, indexing ks[i]) or one kam from omega and ks.
get_ka(self, ks, omega) ==
    IF omega.kind = "list"
    THEN IF ks.kind # "list" \/ Len(ks.val) < Len(omega.val)
         THEN Raise(self, "IndexError")
         ELSE Ok(self, PyList([i \in 1 .. Len(omega.val) |->
                                  KaMatrix(omega.val[i], ks.val[i])]))
    ELSE IF ks.kind # "ndarray"
         THEN Raise(self, "TypeError")
         ELSE Ok(self, PyList(<<KaMatrix(omega.val[1], ks.val[1])>>))

\* The body of self.__get_q() once its property reads have returned.
Body(q, rd) ==
    IF rd.exc # "none" THEN rd
    ELSE CASE q = "ke" -> get_ke(rd.self)
           [] q = "kt" -> get_kt(rd.self, rd.ret[1])
           [] q = "omega" -> get_omega(rd.self)
           [] q = "ks" -> get_ks(rd.self, rd.ret[1], rd.ret[2])
           [] q = "ka" -> get_ka(rd.self, rd.ret[1], rd.ret[2])

RECURSIVE Prop(_, _)

RECURSIVE ReadAll(_, _, _)

\* The first exception ends the derivation (no handler of the class
\* catches it); else the next read.
ReadRest(qs, rets, r) ==
    IF r.exc # "none" THEN r
    ELSE ReadAll(Tail(qs), r.self, Append(rets, r.ret))

\* The property reads of a derivation, in order.
ReadAll(qs, self, rets) ==
    IF qs = <<>> THEN Ok(self, rets)
    ELSE ReadRest(qs, rets, Prop(qs[1], self))

Enter(q, self) ==
    [self EXCEPT !.active = Append(@, q), !.started[q] = @ + 1]

Leave(q, self, r) ==
    [r EXCEPT !.self.active = self.active,
              !.self.completed[q] = IF r.exc = "none" THEN @ + 1 ELSE @]

\* The call self.__get_q(): Python runs the body; a derivation that reached
\* itself again would recurse until RecursionError, which the model raises
\* at the first re-entry.
Get(q, self) ==
    IF q \in Range(self.active)
    THEN Raise([self EXCEPT !.reenter = TRUE], "RecursionError")
    ELSE Leave(q, self,
               Body(q, ReadAll(Reads(q), Pre(q, Enter(q, self)), <<>>)))

\* The result returned without being assigned to self.__q
Store_forget(q, r) ==
    IF r.exc # "none" THEN r ELSE Ok(r.self, View(r.ret.val))

\* self.__q = self.__get_q(), then the return of the property
Store(q, r) ==
    IF r.exc # "none" THEN r
    ELSE Ok([r.self EXCEPT !.cache[q] = [set |-> TRUE, items |-> r.ret.val]],
            View(r.ret.val))

\* The properties ke, ks, ka, omega, kt:
\*   try: return the cached list (its only item when it has one item)
\*   except AttributeError: self.__q = self.__get_q(), then the same return
PropAt(q, self) ==
    IF self.cache[q].set
    THEN Ok(self, View(self.cache[q].items))
    ELSE Store(q, Get(q, self))

Prop(q, self) == PropAt(q, Calls(self, q))

\* TMatrix.init_SZ: the delegate's build in PSD mode, else return None
init_SZ(self) ==
    IF NAME = "PSD" THEN TM_init_SZ(self) ELSE Ok(self, PyNone)

\* ------------------------------------------------------------------------
\* Cross-section queries (__get_asx, __get_ksx, __get_kex)
\* ------------------------------------------------------------------------
RECURSIVE QueryEach(_, _, _, _)

QueryNext(name, r, e, k) ==
    IF r.exc # "none" THEN r ELSE QueryEach(name, r.self, e, k - 1)

\* for item in self.geometriesDeg: VV_temp, HH_temp = self.TM.<name>(item),
\* appended to VV and HH; return VV, HH
QueryEach(name, self, e, k) ==
    IF k = 0 THEN Ok(self, CrossSection(name))
    ELSE QueryNext(name, TM_query(name, self, e), e, k)

\* The statements of the try block, which are those of the handler after
\* the build: the loop when geometriesDeg holds tuples, else the one call
\* self.TM.<name>(self.geometriesDeg).
Query(name, self, e, tuples) ==
    QueryEach(name, self, e, IF tuples THEN Len(samples) ELSE 1)

\* The handler written as a loop: build and query until the query no
\* longer raises AttributeError (twice at most here)
Recover_loop(name, r, e, tuples) ==
    IF r.exc # "AttributeError" THEN r
    ELSE IF Query(name, TM_init_SZ(r.self).self, e, tuples).exc
                # "AttributeError"
         THEN Query(name, TM_init_SZ(r.self).self, e, tuples)
         ELSE Query(name,
                    TM_init_SZ(Query(name, TM_init_SZ(r.self).self,
                                     e, tuples).self).self,
                    e, tuples)

\* except AttributeError: self.TM.init_SZ(), then the query once more,
\* outside any try
Recover(name, r, e, tuples) ==
    IF r.exc # "AttributeError" THEN r
    ELSE Query(name, TM_init_SZ(r.self).self, e, tuples)

\* __get_asx, __get_ksx, __get_kex
get_xs(name, self, e, tuples) ==
    IF NAME = "SINGLE" THEN TM_attr(name, self)
    ELSE Recover(name, Query(name, self, e, tuples), e, tuples)

\* ------------------------------------------------------------------------
\* Operations of the caller
\* ------------------------------------------------------------------------
Commit(op, r) ==
    /\ cache' = r.self.cache
    /\ tables' = r.self.tables
    /\ started' = r.self.started
    /\ completed' = r.self.completed
    /\ reenter' = r.self.reenter
    /\ last' = [op |-> op, exc |-> r.exc, ret |-> r.ret,
                hit |-> (op \in Derived /\ cache[op].set),
                built |-> tables, edges |-> r.self.edges,
                calls |-> r.self.calls]
    /\ UNCHANGED <<psd, NAME, TM, samples, factor, mie>>

CanRun == \A q \in Derived : started[q] < MaxRuns

\* tm.ke, tm.ks, tm.ka, tm.omega, tm.kt
ReadKe == CanRun /\ Commit("ke", Prop("ke", Self))

ReadKs == CanRun /\ Commit("ks", Prop("ks", Self))

ReadKa == CanRun /\ Commit("ka", Prop("ka", Self))

ReadOmega == CanRun /\ Commit("omega", Prop("omega", Self))

ReadKt == CanRun /\ Commit("kt", Prop("kt", Self))

\* tm.kex, tm.ksx, tm.asx
ReadKex == Commit("kex", Facade_xs("kex", Self))

ReadKsx == Commit("ksx", Facade_xs("ksx", Self))

ReadAsx == Commit("asx", Facade_xs("asx", Self))

\* tm.ksi, tm.dblquad
ReadKsi == Commit("ksi", Facade_single("ksi", Self))

ReadDblquad == Commit("dblquad", Facade_single("dblquad", Self))

\* tm.init_SZ() (verbose only selects what the delegate prints)
CallInitSZ == Commit("init_SZ", init_SZ(Self))

Next == \/ ReadKe \/ ReadKs \/ ReadKa \/ ReadOmega \/ ReadKt
        \/ ReadKex \/ ReadKsx \/ ReadAsx
        \/ ReadKsi \/ ReadDblquad
        \/ CallInitSZ

Spec == Init /\ [][Next]_vars

\* The private queries called directly (tm._TMatrix__get_asx() and so on;
\* no public operation calls them).
GetAsx == \E e \in QueryErrors, tuples \in BOOLEAN :
              Commit("__get_asx", get_xs("asx", Self, e, tuples))

GetKsx == \E e \in QueryErrors, tuples \in BOOLEAN :
              Commit("__get_ksx", get_xs("ksx", Self, e, tuples))

GetKex == \E e \in QueryErrors, tuples \in BOOLEAN :
              Commit("__get_kex", get_xs("kex", Self, e, tuples))

NextQuery == Next \/ GetAsx \/ GetKsx \/ GetKex

SpecQuery == Init /\ [][NextQuery]_vars

\* ------------------------------------------------------------------------
\* Mie (scattering/mie/mie.py)
\* ------------------------------------------------------------------------
\* A number of Mie.__init__: v * pi^pi * c^c * g^g with v rational,
\* pi = np.pi, c = 299792458 and g = 1e9 kept as symbols.
Num(v, pi, c, g) == [v |-> v, pi |-> pi, c |-> c, g |-> g]

Plain(v) == Num(v, 0, 0, 0)

NumPi == Num(One, 1, 0, 0)

Light == Num(One, 0, 1, 0)

Giga == Num(One, 0, 0, 1)

NMul(x, y) == Num(RMul(x.v, y.v), x.pi + y.pi, x.c + y.c, x.g + y.g)

NDiv(x, y) == Num(RDiv(x.v, y.v), x.pi - y.pi, x.c - y.c, x.g - y.g)

\* x < y for a positive x in units of pi * 1e9 / 299792458 and a plain
\* rational y, decided with 10.479 < pi * 1e9 / 299792458 < 10.480;
\* x < y between plain rationals.
Decided(x, y) ==
    \/ x.pi = 0 /\ x.c = 0 /\ x.g = 0
    \/ /\ x.pi = 1 /\ x.c = -1 /\ x.g = 1
       /\ \/ RSign(RSub(RMul(x.v, Rat(10480, 1000)), y.v)) < 0
          \/ RSign(RSub(RMul(x.v, Rat(10479, 1000)), y.v)) >= 0

NLess(x, y) ==
    IF x.pi = 0 THEN RSign(RSub(x.v, y.v)) < 0
    ELSE RSign(RSub(RMul(x.v, Rat(10480, 1000)), y.v)) < 0

\* The arguments of Mie(frequency, radius, eps_p, eps_b): frequency in GHz,
\* radius a float or an array of up to MaxN floats.
MieFrequencies == {Rat(1, 1), Rat(5, 1), Rat(10, 1), Rat(35, 1)}

MieRadii == {Rat(1, 10), Rat(1, 4), Rat(1, 1), Rat(3, 1)}

MieRadiusArgs ==
    {[kind |-> "float", val |-> <<r>>] : r \in MieRadii}
    \cup {[kind |-> "ndarray", val |-> a] :
             a \in UNION {[1 .. k -> MieRadii] : k \in 1 .. MaxN}}

MiePermittivities == {"1+1j", "3+2j"}

\* The Mie kernel mie_scattering(frequency, radius, eps_p, eps_b): its six
\* outputs ks, ka, kt, ke, omega, backscatter for these arguments.
KernelOutputs == <<"ks", "ka", "kt", "ke", "omega", "backscatter">>

mie_scattering(args) ==
    [k \in 1 .. 6 |-> [quantity |-> KernelOutputs[k], of |-> args]]

\* The radius passed on as it came
Rescale_none(radius) == [radius EXCEPT !.val =
    [i \in 1 .. Len(radius.val) |-> Plain(radius.val[i])]]

\* radius = radius / 100
Rescale(radius) == [radius EXCEPT !.val =
    [i \in 1 .. Len(radius.val) |->
        NDiv(Plain(radius.val[i]), Plain(Rat(100, 1)))]]

\* lm = 299792458 / (frequency * 1e9)
Wavelength(frequency) == NDiv(Light, NMul(Plain(frequency), Giga))

\* self.condition = (2 * np.pi * radius) / lm
Condition(radius, lm) ==
    [i \in 1 .. Len(radius.val) |->
        NDiv(NMul(NMul(Plain(Rat(2, 1)), NumPi), radius.val[i]), lm)]

\* np.any(self.condition < 0.5)
AnyBelow(condition) ==
    \E i \in 1 .. Len(condition) : NLess(condition[i], Plain(Rat(1, 2)))

\* Mie.__init__ once the radius is rescaled
MieBuilt(frequency, radius, eps_p, eps_b) ==
    [state |-> "built",
     frequency |-> frequency, radius |-> mie.radius,
     eps_p |-> eps_p, eps_b |-> eps_b,
     condition |-> Condition(radius, Wavelength(frequency)),
     warnings |-> IF AnyBelow(Condition(radius, Wavelength(frequency)))
                  THEN 1 ELSE 0,
     kernel |-> << <<frequency, radius, eps_p, eps_b>> >>,
     attrs |-> [a \in {"ks", "ka", "kt", "ke", "omega", "BSC"} |->
         mie_scattering(<<frequency, radius, eps_p, eps_b>>)[
             CASE a = "ks" -> 1 [] a = "ka" -> 2 [] a = "kt" -> 3
               [] a = "ke" -> 4 [] a = "omega" -> 5 [] a = "BSC" -> 6]]]

\* The arguments of a construction that has not run yet
InitMie ==
    /\ \E f \in MieFrequencies, r \in MieRadiusArgs,
          b \in MiePermittivities :
          /\ \A i \in 1 .. Len(r.val) :
                Decided(Condition(Rescale(r), Wavelength(f))[i],
                        Plain(Rat(1, 2)))
          /\ mie = [state |-> "args", frequency |-> f, radius |-> r,
                    eps_p |-> "3+2j", eps_b |-> b]
    /\ psd = "None" /\ NAME = "SINGLE" /\ TM = "TMatrixSingle"
    /\ samples = <<>> /\ factor = <<>> /\ tables = FALSE
    /\ cache = [q \in Derived |-> Unset]
    /\ started = [q \in Derived |-> 0]
    /\ completed = [q \in Derived |-> 0]
    /\ reenter = FALSE
    /\ last = [op |-> "init", exc |-> "none", ret |-> PyNone,
               hit |-> FALSE, built |-> FALSE, edges |-> {},
               calls |-> <<>>]

\* Mie(frequency, radius, eps_p, eps_b)
MieInit ==
    /\ mie.state = "args"
    /\ mie' = MieBuilt(mie.frequency, Rescale(mie.radius),
                       mie.eps_p, mie.eps_b)
    /\ UNCHANGED <<psd, NAME, TM, samples, factor, tables, cache, started,
                   completed, reenter, last>>

SpecMie == InitMie /\ [][MieInit]_vars

\* ------------------------------------------------------------------------
\* C1  Every matrix of ke has the sixteen entries of the extinction formula
\*     for M = factor * S of its sample, factor being i*2*PI*mean(nmax)/k0;
\*     a derivation that returned holds one matrix per sample; and for
\*     S = [[1+2j, 0.5-0.3j], [0.1j, 2-1j]] with factor 1 the entries are
\*     the hand-computed ones.
\* ------------------------------------------------------------------------
C1_M(i, r, c) == CMul(factor[i], samples[i].S[<<r, c>>])

C1_Entries(ke, i) ==
    /\ ke[<<0, 0>>] = RMul(Rat(-2, 1), C1_M(i, 0, 0).re)
    /\ ke[<<0, 1>>] = Zero
    /\ ke[<<0, 2>>] = RNeg(C1_M(i, 0, 1).re)
    /\ ke[<<0, 3>>] = RNeg(C1_M(i, 0, 0).im)
    /\ ke[<<1, 0>>] = Zero
    /\ ke[<<1, 1>>] = RMul(Rat(-2, 1), C1_M(i, 1, 1).re)
    /\ ke[<<1, 2>>] = RNeg(C1_M(i, 1, 0).re)
    /\ ke[<<1, 3>>] = RNeg(C1_M(i, 1, 0).im)
    /\ ke[<<2, 0>>] = RMul(Rat(-2, 1), C1_M(i, 1, 0).re)
    /\ ke[<<2, 1>>] = RMul(Rat(-2, 1), C1_M(i, 0, 1).re)
    /\ ke[<<2, 2>>] = RNeg(RAdd(C1_M(i, 0, 0).re, C1_M(i, 1, 1).re))
    /\ ke[<<2, 3>>] = RSub(C1_M(i, 0, 0).im, C1_M(i, 1, 1).im)
    /\ ke[<<3, 0>>] = RMul(Rat(2, 1), C1_M(i, 1, 0).im)
    /\ ke[<<3, 1>>] = RMul(Rat(-2, 1), C1_M(i, 0, 1).im)
    /\ ke[<<3, 2>>] = RNeg(RSub(C1_M(i, 0, 0).im, C1_M(i, 1, 1).im))
    /\ ke[<<3, 3>>] = RNeg(RAdd(C1_M(i, 0, 0).re, C1_M(i, 1, 1).re))

\* The sixteen values for the example S and factor = 1 + 0j
C1_ExampleKe ==
    <<  <<Rat(-2, 1), Zero, Rat(-1, 2), Rat(-2, 1)>>,
        <<Zero, Rat(-4, 1), Zero, Rat(-1, 10)>>,
        <<Zero, Rat(-1, 1), Rat(-3, 1), Rat(3, 1)>>,
        <<Rat(1, 5), Rat(3, 5), Rat(-3, 1), Rat(-3, 1)>>  >>

C2_RunsExactlyOnce ==
    /\ \A q \in Derived : started[q] <= 1
    /\ last.op \in Derived => started[last.op] = 1

\* C2  (amended) Each derivation returns at most once per instance, and once
\*     a cache attribute is assigned every later access returns it without
\*     entering the derivation, and no operation changes it.  (A derivation
\*     that raised before any assignment is entered again by the next
\*     access.)
C2_Inv ==
    /\ \A q \in Derived :
          /\ completed[q] <= 1
          /\ completed[q] = 1 => cache[q].set
          /\ ~cache[q].set => cache[q].items = <<>>
    /\ (last.op \in Derived /\ last.hit) =>
          /\ last.exc = "none"
          /\ last.ret = View(cache[last.op].items)

C2_Step ==
    \A q \in Derived :
        cache[q].set => /\ cache'[q] = cache[q]
                        /\ started'[q] = started[q]
                        /\ completed'[q] = completed[q]

C2_BuiltOnce == [] C2_Inv /\ [][C2_Step]_vars

\* ks was derived once and then read again from the cache
C2_Witness ==
    /\ last.op = "ks" /\ last.hit /\ last.exc = "none"
    /\ started.ks = 1 /\ completed.ks = 1
    /\ Len(cache.ks.items) = 2

\* ------------------------------------------------------------------------
\* C3  Whenever one of ke, ks, ka, omega, kt returns, it returns the bare
\*     matrix for one sample and a list of exactly n matrices for n >= 2
\*     samples, the i-th derived from the i-th sample.
\* ------------------------------------------------------------------------
C3_Ordered(op, m, i) ==
    CASE op = "ke" -> C1_Entries(m, i)
      [] op = "omega" ->
            /\ m[<<0, 0>>] = RDiv(samples[i].ksxVV, samples[i].kexVV)
            /\ m[<<1, 1>>] = RDiv(samples[i].ksxHH, samples[i].kexHH)
      [] OTHER -> TRUE

C3_Shape ==
    (last.op \in Derived /\ last.exc = "none") =>
        IF Len(samples) = 1
        THEN /\ last.ret.kind = "ndarray"
             /\ C3_Ordered(last.op, last.ret.val[1], 1)
        ELSE /\ last.ret.kind = "list"
             /\ Len(last.ret.val) = Len(samples)
             /\ \A i \in 1 .. Len(samples) :
                   C3_Ordered(last.op, last.ret.val[i], i)

Channels == {<<0, 0>>, <<1, 1>>}

C6_Albedo ==
    /\ cache.omega.set =>
          /\ Len(cache.omega.items) = Len(samples)
          /\ \A i \in 1 .. Len(samples) :
                /\ cache.omega.items[i][<<0, 0>>] =
                      RDiv(samples[i].ksxVV, samples[i].kexVV)
                /\ cache.omega.items[i][<<1, 1>>] =
                      RDiv(samples[i].ksxHH, samples[i].kexHH)
                /\ \A rc \in Idx4 \ Channels :
                      cache.omega.items[i][rc] = Zero
    /\ \A e \in last.edges : e[1] = "omega" => e[2] \in {"ksx", "kex"}

\* omega was derived for two samples while ke and ks were still unbuilt
C6_Witness ==
    /\ last.op = "omega" /\ last.exc = "none" /\ ~last.hit
    /\ Len(cache.omega.items) = 2
    /\ ~cache.ke.set /\ ~cache.ks.set
    /\ last.edges = {<<"omega", "ksx">>, <<"omega", "kex">>}

\* ------------------------------------------------------------------------
\* C7  ka[p, p] = (ks[p, p] - omega[p, p] * ks[p, p]) / omega[p, p] for
\*     p = 0 and p = 1, the other entries of ka are zero, and ka has as many
\*     samples as omega.
\* ------------------------------------------------------------------------
C7_Absorption ==
    cache.ka.set =>
        /\ cache.ks.set /\ cache.omega.set
        /\ Len(cache.ka.items) = Len(cache.omega.items)
        /\ \A i \in 1 .. Len(cache.ka.items) :
              /\ \A p \in Channels :
                    cache.ka.items[i][p] =
                        RDiv(RSub(cache.ks.items[i][p],
                                  RMul(cache.omega.items[i][p],
                                       cache.ks.items[i][p])),
                             cache.omega.items[i][p])
              /\ \A rc \in Idx4 \ Channels : cache.ka.items[i][rc] = Zero

\* ka was derived for two samples, the first with a non-zero absorption
C7_Witness ==
    /\ last.op = "ka" /\ last.exc = "none" /\ ~last.hit
    /\ Len(cache.ka.items) = 2
    /\ IsFinite(cache.ka.items[1][<<0, 0>>])
    /\ ~IsZero(cache.ka.items[1][<<0, 0>>])

\* ------------------------------------------------------------------------
\* C8  Every access ends (returns or raises an error of the delegate): no
\*     derivation is entered while it is running, and the reads made by the
\*     derivations are those of the chain kt->ke; ks->ke,omega;
\*     ka->ks,omega; omega->ksx,kex.
\* ------------------------------------------------------------------------
C8_Chain == { <<"kt", "ke">>, <<"ks", "ke">>, <<"ks", "omega">>,
              <<"ka", "ks">>, <<"ka", "omega">>,
              <<"omega", "ksx">>, <<"omega", "kex">> }

C8_Acyclic ==
    /\ ~reenter
    /\ last.exc # "RecursionError"
    /\ last.edges \subseteq C8_Chain
    /\ \A e \in last.edges : <<e[2], e[1]>> \notin last.edges

\* a first access to ka on a fresh instance went through the whole chain
C8_Witness ==
    /\ last.op = "ka" /\ last.exc = "none"
    /\ \A q \in Derived : started[q] = (IF q = "kt" THEN 0 ELSE 1)
    /\ last.edges = C8_Chain \ {<<"kt", "ke">>}

\* ------------------------------------------------------------------------
\* C9  The instance is in PSD mode (tag 'PSD', delegate TMatrixPSD) exactly
\*     when a psd other than None was given, else in SINGLE mode (delegate
\*     TMatrixSingle), and no operation changes the tag or the delegate.
\* ------------------------------------------------------------------------
C9_Inv ==
    /\ NAME \in {"PSD", "SINGLE"}
    /\ NAME = "PSD" <=> psd # "None"
    /\ TM = (IF psd # "None" THEN "TMatrixPSD" ELSE "TMatrixSingle")

C9_ModeFixed == [] C9_Inv /\ [][NAME' = NAME /\ TM' = TM]_vars

\* a PSD instance after init_SZ and a derived read
C9_Witness ==
    /\ NAME = "PSD" /\ tables /\ ~last.built
    /\ last.op = "init_SZ"
    /\ started.ke > 0

\* ------------------------------------------------------------------------
\* C10 In PSD mode with the tables not built, reading asx, ksx or kex
\*     returns, has built the tables, and returns what the same read
\*     returns once init_SZ() has been called.
\* ------------------------------------------------------------------------
C10_AutoBuild ==
    (last.op \in {"asx", "ksx", "kex"} /\ NAME = "PSD" /\ ~last.built) =>
        /\ last.exc = "none"
        /\ tables
        /\ last.ret = Facade_xs(last.op, init_SZ(Self).self).ret

\* ------------------------------------------------------------------------
\* C11 One call of a cross-section query in PSD mode builds the tables at
\*     most once: a build happens only after the first pass raised the
\*     not-yet-built condition, exactly one more pass follows it, and what
\*     that pass raises is what the caller gets (no second build).  The
\*     public properties asx, ksx, kex never build.
\* ------------------------------------------------------------------------
C11_Ops == {"__get_asx", "__get_ksx", "__get_kex"}

C11_Name == CASE last.op = "__get_asx" -> "asx"
              [] last.op = "__get_ksx" -> "ksx"
              [] last.op = "__get_kex" -> "kex"
              [] OTHER -> last.op

C11_Builds ==
    Cardinality({i \in 1 .. Len(last.calls) : last.calls[i] = "init_SZ"})

\* One pass over the delegate: it returned after one call or one call per
\* sample, or its first call raised.
C11_Pass(calls) ==
    IF last.exc = "none"
    THEN /\ calls \in {<<C11_Name>>, [i \in 1 .. Len(samples) |-> C11_Name]}
         /\ last.ret = CrossSection(C11_Name)
    ELSE calls = <<C11_Name, last.exc>>

C11_BuildOnce ==
    /\ last.op \in {"asx", "ksx", "kex"} => C11_Builds = 0
    /\ (last.op \in C11_Ops /\ NAME = "PSD") =>
          /\ C11_Builds <= 1
          /\ C11_Builds = 0 =>
                /\ C11_Pass(last.calls)
                /\ last.exc # "AttributeError"
                /\ tables = last.built
          /\ C11_Builds = 1 =>
                /\ SubSeq(last.calls, 1, 3)
                      = <<C11_Name, "AttributeError", "init_SZ">>
                /\ C11_Pass(SubSeq(last.calls, 4, Len(last.calls)))
                /\ tables

\* the tables were not built, the query built them and its second pass
\* raised, which reached the caller
C11_Witness ==
    /\ last.op = "__get_ksx" /\ NAME = "PSD" /\ ~last.built
    /\ last.calls = <<"ksx", "AttributeError", "init_SZ",
                      "ksx", "AttributeError">>
    /\ last.exc = "AttributeError"

\* ------------------------------------------------------------------------
\* C12 A constructed Mie object has warned exactly when some element of the
\*     radius has 2*pi*(radius/100)/wavelength < 0.5, which for a frequency
\*     f in GHz and a radius r is r * f < 2.3856... (between 2.385 and
\*     2.386); warned or not, the kernel was called exactly once, with the
\*     frequency, radius/100 and the two permittivities, and its outputs
\*     ks, ka, kt, ke, omega, backscatter are the attributes ks, ka, kt,
\*     ke, omega, BSC.
\* ------------------------------------------------------------------------
C12_Small(r) == 1000 * RMul(r, mie.frequency).n
                    < 2386 * RMul(r, mie.frequency).d

C12_Args ==
    <<mie.frequency,
      [kind |-> mie.radius.kind,
       val |-> [i \in 1 .. Len(mie.radius.val) |->
                   Plain(RDiv(mie.radius.val[i], Rat(100, 1)))]],
      mie.eps_p, mie.eps_b>>

C12_WitnessQuiet ==
    /\ mie.state = "built" /\ mie.warnings = 0
    /\ mie.attrs.BSC.quantity = "backscatter"

\* ------------------------------------------------------------------------
\* C13 In PSD mode ksi and dblquad return None and do not touch the
\*     delegate; in SINGLE mode they return the delegate's attribute.
\*     init_SZ calls the delegate's build in PSD mode only; in SINGLE mode it
\*     returns None, does not touch the delegate and changes nothing of the
\*     instance.
\* ------------------------------------------------------------------------
C13_Inv ==
    /\ last.op \in {"ksi", "dblquad"} =>
          /\ last.exc = "none"
          /\ IF NAME = "PSD"
             THEN last.ret = PyNone /\ last.calls = <<>>
             ELSE /\ last.ret = [kind |-> "delegate", val |-> <<last.op>>]
                  /\ last.calls = <<last.op>>
    /\ last.op = "init_SZ" =>
          /\ last.exc = "none" /\ last.ret = PyNone
          /\ IF NAME = "PSD"
             THEN last.calls = <<"init_SZ">> /\ tables
             ELSE last.calls = <<>> /\ tables = last.built

C13_Step ==
    (last'.op \in {"ksi", "dblquad"}
        \/ (last'.op = "init_SZ" /\ NAME = "SINGLE")) =>
        UNCHANGED <<psd, NAME, TM, samples, factor, tables, cache, started,
                    completed, reenter>>

C13_Dispatch == [] C13_Inv /\ [][C13_Step]_vars

\* init_SZ on a SINGLE instance whose ke is built, changing nothing
C13_Witness ==
    /\ last.op = "init_SZ" /\ NAME = "SINGLE"
    /\ cache.ke.set /\ ~tables

\* dblquad on a PSD instance with its tables built
C13_WitnessPSD ==
    /\ last.op = "dblquad" /\ NAME = "PSD" /\ tables
    /\ last.ret = PyNone

\* ------------------------------------------------------------------------
\* C14 A derivation of ke or kt that failed leaves that cache unbuilt: the
\*     cache of ke or kt, once it exists, holds one matrix per sample, so
\*     an access that returns after a failure returns the complete result
\*     and never an empty or shorter sequence.
\* ------------------------------------------------------------------------
C14_FailedStaysUnbuilt ==
    \A q \in {"ke", "kt"} :
        /\ cache[q].set => Len(cache[q].items) = Len(samples)
        /\ (started[q] > completed[q] /\ completed[q] = 0) => ~cache[q].set
        /\ (last.op = q /\ last.exc = "none") =>
              last.ret \notin {PyList(<<>>), PyArray(<<>>)}

\* ------------------------------------------------------------------------
\* C15 What an accessor returns is fixed by the delegate's output alone:
\*     whatever was read before and however often, ke, kt, omega, ks and ka
\*     return the matrices computed from S, ksx, kex, nmax and k0 of the
\*     samples, so any two access sequences on instances built alike
\*     return equal values.
\* ------------------------------------------------------------------------
C15_Ke(i) == Kem(Factor(samples)[i], samples[i].S)

C15_Omega(i) ==
    [zeros44 EXCEPT
        ![<<0, 0>>] = RDiv(samples[i].ksxVV, samples[i].kexVV),
        ![<<1, 1>>] = RDiv(samples[i].ksxHH, samples[i].kexHH)]

C15_Ks(i) ==
    [zeros44 EXCEPT
        ![<<0, 0>>] = RMul(C15_Omega(i)[<<0, 0>>], C15_Ke(i)[<<0, 0>>]),
        ![<<1, 1>>] = RMul(C15_Omega(i)[<<1, 1>>], C15_Ke(i)[<<1, 1>>])]

C15_Ka(i) ==
    [zeros44 EXCEPT
        ![<<0, 0>>] = RDiv(RSub(C15_Ks(i)[<<0, 0>>],
                                RMul(C15_Omega(i)[<<0, 0>>],
                                     C15_Ks(i)[<<0, 0>>])),
                           C15_Omega(i)[<<0, 0>>]),
        ![<<1, 1>>] = RDiv(RSub(C15_Ks(i)[<<1, 1>>],
                                RMul(C15_Omega(i)[<<1, 1>>],
                                     C15_Ks(i)[<<1, 1>>])),
                           C15_Omega(i)[<<1, 1>>])]

C15_Value(q) ==
    [i \in 1 .. Len(samples) |->
        CASE q = "ke" -> C15_Ke(i)
          [] q = "kt" -> [rc \in Idx4 |-> RSub(One, C15_Ke(i)[rc])]
          [] q = "omega" -> C15_Omega(i)
          [] q = "ks" -> C15_Ks(i)
          [] q = "ka" -> C15_Ka(i)]

C15_OrderIndependent ==
    (last.op \in Derived /\ last.exc = "none") =>
        last.ret = (IF Len(samples) = 1
                    THEN PyArray(C15_Value(last.op)[1])
                    ELSE PyList(C15_Value(last.op)))

\* The same in SINGLE mode, where no derivation fails
C15_SingleMode == NAME = "SINGLE" => C15_OrderIndependent

====
